---- MODULE Spec2Model ----
(***************************************************************************)
(* Model of the AI task scheduler: the dependency analysis and plan        *)
(* construction of AITaskPlanner (src/ai_planner.py), the TaskExecutor     *)
(* status machine (src/executor.py) and the execution block of the web     *)
(* application (src/streamlit_app.py).                                     *)
(***************************************************************************)
EXTENDS Integers, Sequences, FiniteSets, TLC

\* ------------------------------------------------------------------ bounds
\* Largest task list handed to the planner.
MaxTasks == 3

\* Largest task list handed to a TaskExecutor.
MaxExecTasks == 3

\* Most tasks the task store of the application holds at a time.
MaxStoreTasks == 2

\* Largest value task_counter takes before the store is cleared.
MaxCounter == 3

\* Largest task list analysed with a classifier response that has missing
\* keys, keys of no task and numbers of no task.
MaxResponseTasks == 2

\* ------------------------------------------------------------- basic values
\* Python's None / Optional: the empty tuple is None, <<x>> is the value x.
None == <<>>
Some(x) == <<x>>

\* models.TaskStatus
TaskStatus == {"Pending", "Running", "Completed", "Failed"}

\* range(n)
Range(n) == 0 .. (n - 1)

\* A dictionary or a list built by a comprehension, with its entries computed
\* when it is built (as Python does) and not at every later lookup.
Dict(f) == f @@ <<>>
List(f) == f \o <<>>

\* ------------------------------------------------------------------- text
\* Strings are tuples of one-character strings, so that substring search and
\* str.lower() are computed rather than assumed.
UpperChars == <<"A","B","C","D","E","F","G","H","I","J","K","L","M",
                "N","O","P","Q","R","S","T","U","V","W","X","Y","Z">>
LowerChars == <<"a","b","c","d","e","f","g","h","i","j","k","l","m",
                "n","o","p","q","r","s","t","u","v","w","x","y","z">>

\* str.lower() on one character
LowerChar(c) ==
    IF \E k \in 1..Len(UpperChars) : UpperChars[k] = c
    THEN LowerChars[CHOOSE k \in 1..Len(UpperChars) : UpperChars[k] = c]
    ELSE c

\* str.lower()
Lower(s) == List([k \in 1..Len(s) |-> LowerChar(s[k])])

\* Python's  action in task_text  on strings: substring containment
Contains(text, action) ==
    \E k \in 0..(Len(text) - Len(action)) :
        SubSeq(text, k + 1, k + Len(action)) = action

\* action_phases, in the dictionary's insertion order
ActionPhases ==
    << [action |-> <<"s","t","a","r","t">>, phase |-> 1],
       [action |-> <<"b","e","g","i","n">>, phase |-> 1],
       [action |-> <<"p","l","a","n">>, phase |-> 1],
       [action |-> <<"t","h","i","n","k">>, phase |-> 1],
       [action |-> <<"r","e","s","e","a","r","c","h">>, phase |-> 2],
       [action |-> <<"a","n","a","l","y","z","e">>, phase |-> 2],
       [action |-> <<"s","t","u","d","y">>, phase |-> 2],
       [action |-> <<"l","e","a","r","n">>, phase |-> 2],
       [action |-> <<"g","a","t","h","e","r">>, phase |-> 2],
       [action |-> <<"c","o","l","l","e","c","t">>, phase |-> 2],
       [action |-> <<"d","e","s","i","g","n">>, phase |-> 3],
       [action |-> <<"d","e","s","i","g","n"," ","m","o","c","k","u","p">>, phase |-> 3],
       [action |-> <<"s","k","e","t","c","h">>, phase |-> 3],
       [action |-> <<"b","l","u","e","p","r","i","n","t">>, phase |-> 3],
       [action |-> <<"w","r","i","t","e">>, phase |-> 4],
       [action |-> <<"c","o","d","e">>, phase |-> 4],
       [action |-> <<"i","m","p","l","e","m","e","n","t">>, phase |-> 4],
       [action |-> <<"b","u","i","l","d">>, phase |-> 4],
       [action |-> <<"d","e","v","e","l","o","p">>, phase |-> 4],
       [action |-> <<"p","r","e","p","a","r","e">>, phase |-> 4],
       [action |-> <<"c","o","o","k">>, phase |-> 4],
       [action |-> <<"s","e","t">>, phase |-> 5],
       [action |-> <<"a","r","r","a","n","g","e">>, phase |-> 5],
       [action |-> <<"t","e","s","t">>, phase |-> 6],
       [action |-> <<"r","e","v","i","e","w">>, phase |-> 6],
       [action |-> <<"c","h","e","c","k">>, phase |-> 6],
       [action |-> <<"q","u","a","l","i","t","y">>, phase |-> 6],
       [action |-> <<"s","u","b","m","i","t">>, phase |-> 7],
       [action |-> <<"p","u","b","l","i","s","h">>, phase |-> 7],
       [action |-> <<"l","a","u","n","c","h">>, phase |-> 7],
       [action |-> <<"d","e","p","l","o","y">>, phase |-> 7],
       [action |-> <<"t","u","r","n"," ","i","n">>, phase |-> 7],
       [action |-> <<"e","a","t">>, phase |-> 8],
       [action |-> <<"e","n","j","o","y">>, phase |-> 8],
       [action |-> <<"u","s","e">>, phase |-> 8],
       [action |-> <<"m","a","r","k","e","t">>, phase |-> 9],
       [action |-> <<"s","l","e","e","p">>, phase |-> 10],
       [action |-> <<"r","e","s","t">>, phase |-> 10],
       [action |-> <<"r","e","l","a","x">>, phase |-> 10] >>

\* float('inf'), the start value of min_phase: above every phase of the table
INF == 1000

\* the phase of a task that matches no keyword
DefaultPhase == 5

\* (mutant) the text is scanned as typed, without lower()
TaskText_AsTyped(task) == task.name \o <<" ">> \o task.description

\* (task.name + " " + task.description).lower()
TaskText(task) == Lower(task.name \o <<" ">> \o task.description)

\* min(min_phase, phase)
Min2(a, b) == IF b < a THEN b ELSE a

\* (mutant) the scan keeps the phase of the last keyword found, not the least
RECURSIVE ScanActions_LastMatch(_, _, _)
ScanActions_LastMatch(task_text, k, min_phase) ==
    IF k > Len(ActionPhases) THEN min_phase
    ELSE ScanActions_LastMatch(task_text, k + 1,
                               IF Contains(task_text, ActionPhases[k].action)
                               THEN ActionPhases[k].phase
                               ELSE min_phase)

\* the loop  for action, phase in action_phases.items()  from entry k on,
\* carrying min_phase
RECURSIVE ScanActions(_, _, _)
ScanActions(task_text, k, min_phase) ==
    IF k > Len(ActionPhases) THEN min_phase
    ELSE ScanActions(task_text, k + 1,
                     IF Contains(task_text, ActionPhases[k].action)
                     THEN Min2(min_phase, ActionPhases[k].phase)
                     ELSE min_phase)

\* task_phases[i] for one task
PhaseOfText(task_text) ==
    LET min_phase == ScanActions(task_text, 1, INF)
    IN  IF min_phase # INF THEN min_phase ELSE DefaultPhase
\* ------------------------------------------------------- task universe
TaskNames ==
    { <<"R","e","s","e","a","r","c","h"," ","t","o","p","i","c">>,
      <<"W","r","i","t","e"," ","r","e","p","o","r","t">>,
      <<"S","u","b","m","i","t"," ","r","e","p","o","r","t">>,
      <<"N","a","p">>,
      <<"R","e","s","t","a","r","t">>,
      <<"T","u","r","n">> }

TaskDescriptions == { <<>>, <<"i","n">> }

\* task_phases[i] for every text the task lists below can hold, computed once
PhaseMemo ==
    Dict([nd \in TaskNames \X TaskDescriptions |->
            PhaseOfText(TaskText([name |-> nd[1], description |-> nd[2]]))])

\* task_phases[i] for one task
PhaseOfTask(task) == PhaseMemo[<<task.name, task.description>>]

\* Identifiers are the numbers k of "task_k". The task store hands them out
\* in increasing order; either none was deleted or every second one was.
IdSchemes == {"dense", "gapped"}
TaskId(scheme, i) == IF scheme = "dense" THEN i ELSE 2 * i + 1

\* Priorities are integers from 1 to 10. Either every task has the default
\* priority, or the priorities rise along the list.
PrioritySchemes == {"default", "rising"}
DefaultPriority == 5
Priority(scheme, i) == IF scheme = "default" THEN DefaultPriority ELSE 1 + 3 * i

\* the task lists of length n over the names and descriptions above, with
\* identifiers and priorities after the schemes given
TaskListsOf(n, schemes, urgencies) ==
    { [k \in 1..n |-> [id |-> TaskId(scheme, k - 1), name |-> nd[k][1],
                       description |-> nd[k][2],
                       priority |-> Priority(urgency, k - 1)]] :
        scheme \in schemes, urgency \in urgencies,
        nd \in [1..n -> TaskNames \X TaskDescriptions] }

\* the task lists of length n
TaskLists(n) == TaskListsOf(n, IdSchemes, PrioritySchemes)

\* the task lists of length n handed to a planner whose classifier fails
FailureTaskLists(n) == TaskListsOf(n, {"gapped"}, {"default"})

\* task lists whose text matches no keyword, for the runs where the
\* classifier decides the relation
PlainTaskLists(n) ==
    { [k \in 1..n |-> [id |-> TaskId(scheme, k - 1), name |-> <<"N","a","p">>,
                       description |-> <<>>,
                       priority |-> Priority(urgency, k - 1)]] :
        scheme \in IdSchemes, urgency \in PrioritySchemes }

\* the planner built without a classifier (no key or no client library)
NoClassifier == [use_ai |-> FALSE, outcome |-> "none", deps |-> <<>>]

\* str(k) for k >= 0, as a tuple of characters
Digits == <<"0", "1", "2", "3", "4", "5", "6", "7", "8", "9">>
RECURSIVE Str(_)
Str(k) ==
    IF k < 10 THEN <<Digits[k + 1]>>
    ELSE Str(k \div 10) \o <<Digits[(k % 10) + 1]>>

\* the keys "1" .. "n" of a response over n tasks
TaskKeys(n) == {Str(k) : k \in 1..n}

\* a classifier whose answer parses: every task number is a key and lists
\* task numbers in [1, n]
Responses(n) ==
    { [use_ai |-> TRUE, outcome |-> "ok", deps |-> d] :
        d \in [TaskKeys(n) -> SUBSET (1..n)] }

\* keys of no task that a response may carry besides: none, "0", or the
\* number after the last task
StrayKeys(n) == {<<>>, Str(0) :> {1}, Str(n + 1) :> {1}}

\* a classifier whose answer parses into a "dependencies" object in which
\* any key may be missing and the numbers listed range over 0 .. n + 1
NoisyResponses(n) ==
    { [use_ai |-> TRUE, outcome |-> "ok", deps |-> Dict(d @@ stray)] :
        d \in UNION {[K -> SUBSET (0..(n + 1))] : K \in SUBSET TaskKeys(n)},
        stray \in StrayKeys(n) }

\* the ways the classifier call fails: the client raises a transport error,
\* the client raises the error it makes of a non-success status, or the
\* content returned is text json.loads rejects
FailureOutcomes == {"transport_error", "non_success", "unparsable"}

\* a classifier that is enabled and fails
Failures ==
    { [use_ai |-> TRUE, outcome |-> o, deps |-> <<>>] : o \in FailureOutcomes }


\* -------------------------------------------------- AITaskPlanner: analysis
\* len(tasks) as a 0-based index range
Indices(tasks) == Range(Len(tasks))

\* tasks[i] for a 0-based Python index
At(tasks, i) == tasks[i + 1]

\* the loop  for i, task in enumerate(tasks)  that fills task_phases
TaskPhases(tasks) ==
    Dict([i \in Indices(tasks) |-> PhaseOfTask(At(tasks, i))])

\* (mutant) any task of another phase is taken as a prerequisite
Precedes_Differs(task_phases, j, i) == i # j /\ task_phases[j] # task_phases[i]

\* (mutant) the comparison admits equal phases
Precedes_OrEqual(task_phases, j, i) == i # j /\ task_phases[j] <= task_phases[i]

\* the test that adds j to dependencies[i]
Precedes(task_phases, j, i) == i # j /\ task_phases[j] < task_phases[i]

\* the inner loop  for j in range(len(tasks))  for one i, from j on
RECURSIVE AddPrerequisites(_, _, _, _, _)
AddPrerequisites(task_phases, n, i, j, acc) ==
    IF j >= n THEN acc
    ELSE AddPrerequisites(task_phases, n, i, j + 1,
                          IF Precedes(task_phases, j, i) THEN acc \cup {j} ELSE acc)

\* the dependencies dictionary built from task_phases
PhaseDependencies(task_phases, n) ==
    Dict([i \in Range(n) |-> AddPrerequisites(task_phases, n, i, 0, {})])

\* _analyze_with_keywords
AnalyzeWithKeywords(tasks) ==
    PhaseDependencies(TaskPhases(tasks), Len(tasks))

\* (mutant) every number listed is converted, the range test is missing
ConvertEntry_Unfiltered(entry, n) == {x - 1 : x \in entry}

\* the conversion of one response entry: 1-based numbers inside [1, N] become
\* 0-based indices, the others are dropped
ConvertEntry(entry, n) == {x - 1 : x \in {y \in entry : 1 <= y /\ y <= n}}

\* _analyze_with_ai on a parsed response: deps maps the keys present to the
\* numbers listed under them; task i is looked up under the key str(i + 1)
AnalyzeWithAi(deps, n) ==
    Dict([i \in Range(n) |->
            IF Str(i + 1) \in DOMAIN deps
            THEN ConvertEntry(deps[Str(i + 1)], n) ELSE {}])

\* the keyword fallback, with the task_phases it computed
KeywordAnalysis(task_phases, n) ==
    [relation |-> PhaseDependencies(task_phases, n),
     task_phases |-> Some(task_phases)]

\* the classifier call of _analyze_with_ai raises; the exception leaves
\* _analyze_with_ai and is caught in analyze_dependencies
Raises(clf) == clf.outcome \in {"transport_error", "non_success"}

\* (mutant) a response that does not parse is taken as "no prerequisites"
ParseFailure_Empty(tasks) ==
    [relation |-> Dict([i \in Indices(tasks) |-> {}]), task_phases |-> None]

\* except json.JSONDecodeError: the keyword analysis is returned
ParseFailure(tasks) == KeywordAnalysis(TaskPhases(tasks), Len(tasks))

\* _analyze_with_ai when the classifier call returns
AnalyzeWithAiReturn(tasks, clf) ==
    IF clf.outcome = "unparsable"
    THEN ParseFailure(tasks)
    ELSE [relation |-> AnalyzeWithAi(clf.deps, Len(tasks)), task_phases |-> None]

\* the analysis with the note whether the classifier was called for it
Called(called, analysis) == [ai_called |-> called] @@ analysis

\* (mutant) only the empty list is answered without analysis
Trivial_EmptyOnly(tasks) == Len(tasks) < 1

\* the test of the early return of analyze_dependencies
Trivial(tasks) == Len(tasks) <= 1

\* analyze_dependencies: the relation, the task_phases computed on the way
\* (None when the keyword table was not consulted) and whether
\* _analyze_with_ai was called
AnalyzeDependencies(tasks, clf) ==
    IF Trivial(tasks)
    THEN Called(FALSE, [relation |-> Dict([i \in Indices(tasks) |-> {}]),
                        task_phases |-> None])
    ELSE IF clf.use_ai /\ ~Raises(clf)
    THEN Called(TRUE, AnalyzeWithAiReturn(tasks, clf))
    ELSE Called(clf.use_ai, KeywordAnalysis(TaskPhases(tasks), Len(tasks)))

\* ------------------------------------------- AITaskPlanner: topological sort
\* (mutant) in_degree is left at its initial zeros
InDegree_Unset(dependencies, n) == Dict([i \in Range(n) |-> 0])

\* in_degree after the first loop: in_degree[i] = len(dependencies[i])
InDegree(dependencies, n) ==
    Dict([i \in Range(n) |-> Cardinality(dependencies[i])])

\* adjacency[prereq]: the dependents of prereq in the order they are appended,
\* that is in the order of the dictionary's keys, from task t on
RECURSIVE Dependents(_, _, _, _)
Dependents(dependencies, n, prereq, t) ==
    IF t >= n THEN <<>>
    ELSE (IF prereq \in dependencies[t] THEN <<t>> ELSE <<>>)
         \o Dependents(dependencies, n, prereq, t + 1)

\* adjacency
Adjacency(dependencies, n) ==
    Dict([prereq \in Range(n) |-> Dependents(dependencies, n, prereq, 0)])

\* (mutant) the queue is seeded from the highest index down
RECURSIVE InitialQueue_Descending(_, _, _)
InitialQueue_Descending(in_degree, n, i) ==
    IF i >= n THEN <<>>
    ELSE InitialQueue_Descending(in_degree, n, i + 1)
         \o (IF in_degree[i] = 0 THEN <<i>> ELSE <<>>)

\* queue = [i for i in range(num_tasks) if in_degree[i] == 0], from i on
RECURSIVE InitialQueue(_, _, _)
InitialQueue(in_degree, n, i) ==
    IF i >= n THEN <<>>
    ELSE (IF in_degree[i] = 0 THEN <<i>> ELSE <<>>)
         \o InitialQueue(in_degree, n, i + 1)

\* (mutant) an unblocked dependent is put at the front of the queue
RECURSIVE RelaxDependents_Lifo(_, _, _, _)
RelaxDependents_Lifo(adj, k, queue, in_degree) ==
    IF k > Len(adj) THEN [queue |-> queue, in_degree |-> in_degree]
    ELSE LET dependent == adj[k]
             deg == [in_degree EXCEPT ![dependent] = @ - 1]
         IN  RelaxDependents_Lifo(adj, k + 1,
                                  IF deg[dependent] = 0 THEN <<dependent>> \o queue
                                  ELSE queue,
                                  deg)

\* the loop  for dependent in adjacency[current]  from position k on
RECURSIVE RelaxDependents(_, _, _, _)
RelaxDependents(adj, k, queue, in_degree) ==
    IF k > Len(adj) THEN [queue |-> queue, in_degree |-> in_degree]
    ELSE LET dependent == adj[k]
             deg == [in_degree EXCEPT ![dependent] = @ - 1]
         IN  RelaxDependents(adj, k + 1,
                             IF deg[dependent] = 0 THEN Append(queue, dependent)
                             ELSE queue,
                             deg)

\* the loop  while queue
RECURSIVE KahnLoop(_, _, _, _)
KahnLoop(queue, result, in_degree, adjacency) ==
    IF queue = <<>> THEN result
    ELSE LET current == Head(queue)
             r == RelaxDependents(adjacency[current], 1, Tail(queue), in_degree)
         IN  KahnLoop(r.queue, Append(result, current), r.in_degree, adjacency)

\* (mutant) the length test is missing: a short result is returned as it is
SortResult_Unchecked(result, n) == Some(result)

\* the final test of _topological_sort: None when a cycle kept tasks out
SortResult(result, n) == IF Len(result) # n THEN None ELSE Some(result)

\* _topological_sort
TopologicalSort(dependencies, n) ==
    LET in_degree == InDegree(dependencies, n)
    IN  SortResult(KahnLoop(InitialQueue(in_degree, n, 0), <<>>, in_degree,
                            Adjacency(dependencies, n)), n)

\* ------------------------------------------------ AITaskPlanner: the plan
\* ExecutionPlan(execution_order=[], is_valid=True) for an empty task list
EmptyPlan ==
    [execution_order |-> <<>>, is_valid |-> TRUE, error_message |-> "",
     tasks |-> <<>>]

\* the plan returned when _topological_sort returns None
CyclePlan ==
    [execution_order |-> <<>>, is_valid |-> FALSE,
     error_message |-> "Circular dependency detected among tasks",
     tasks |-> <<>>]

\* (mutant) the order lists list indices where identifiers are meant
ExecutionOrder_Indices(tasks, ordered_indices) == ordered_indices

\* execution_order=[task.id for task in ordered_tasks]
ExecutionOrder(tasks, ordered_indices) ==
    List([k \in 1..Len(ordered_indices) |-> At(tasks, ordered_indices[k]).id])

\* tasks={task.id: task for task in ordered_tasks}
TaskLookup(tasks, ordered_indices) ==
    Dict([id \in {At(tasks, ordered_indices[k]).id : k \in 1..Len(ordered_indices)} |->
            CHOOSE t \in {At(tasks, ordered_indices[k]) : k \in 1..Len(ordered_indices)} :
                t.id = id])

\* the valid plan built from the sorted indices
ValidPlan(tasks, ordered_indices) ==
    [execution_order |-> ExecutionOrder(tasks, ordered_indices),
     is_valid |-> TRUE, error_message |-> "",
     tasks |-> TaskLookup(tasks, ordered_indices)]

\* (mutant) the tasks of a priority above the default are moved to the front
\* of the sorted indices
PlanOf_UrgentFirst(tasks, analysis, ordered) ==
    LET urgent(i) == At(tasks, i).priority > DefaultPriority
        calm(i) == ~urgent(i)
        moved == IF ordered = None THEN None
                 ELSE Some(SelectSeq(ordered[1], urgent) \o SelectSeq(ordered[1], calm))
    IN  [plan |-> IF moved = None THEN CyclePlan ELSE ValidPlan(tasks, moved[1]),
         dependencies |-> analysis.relation,
         task_phases |-> analysis.task_phases,
         ai_called |-> analysis.ai_called,
         ordered_indices |-> moved]

\* the tail of generate_plan, from the value _topological_sort returned
PlanOf(tasks, analysis, ordered) ==
    [plan |-> IF ordered = None THEN CyclePlan ELSE ValidPlan(tasks, ordered[1]),
     dependencies |-> analysis.relation,
     task_phases |-> analysis.task_phases,
     ai_called |-> analysis.ai_called,
     ordered_indices |-> ordered]

\* generate_plan from the relation analyze_dependencies returned. (A value
\* bound through a one-element set is evaluated once.)
PlanFrom(tasks, analysis) ==
    CHOOSE g \in {PlanOf(tasks, analysis, ordered) :
                     ordered \in {TopologicalSort(analysis.relation, Len(tasks))}} :
        TRUE

\* generate_plan: the plan with the locals the claims speak about
GeneratePlan(tasks, clf) ==
    IF tasks = <<>>
    THEN [plan |-> EmptyPlan, dependencies |-> <<>>, task_phases |-> None,
          ai_called |-> FALSE, ordered_indices |-> None]
    ELSE CHOOSE g \in {PlanFrom(tasks, analysis) :
                          analysis \in {AnalyzeDependencies(tasks, clf)}} :
             TRUE

\* ------------------------------------------------------------------ state
VARIABLES
    \* planner: the arguments of generate_plan, its locals and its result
    tasks,            \* the task list handed to generate_plan
    classifier,       \* use_ai and what the classifier call does
    dependencies,     \* the relation analyze_dependencies returned
    task_phases,      \* task_phases of _analyze_with_keywords, or None
    ai_called,        \* _analyze_with_ai was called
    ordered_indices,  \* what _topological_sort returned, or None
    plan,             \* the ExecutionPlan returned, None before the call
    \* executor: one TaskExecutor, its worker and the threads calling it
    exec_tasks,       \* self.tasks: the status of each task, in order
    stop_flag,        \* self.stop_flag
    pause_flag,       \* self.pause_flag
    worker,           \* the worker: the task it is at and its line in execute_task
    stopper,          \* the caller of stop_execution: its line and loop index
    history,          \* what has happened so far, for the statements about it
    \* application: st.session_state and the script run in progress
    st_tasks,         \* session_state.tasks: the Task objects, in insertion order
    task_counter,     \* session_state.task_counter
    current_plan,     \* session_state.current_plan
    executing,        \* session_state.executing
    ui                \* the script run: where it is in the execution block

plannerVars ==
    <<tasks, classifier, dependencies, task_phases, ai_called, ordered_indices, plan>>
executorVars == <<exec_tasks, stop_flag, pause_flag, worker, stopper, history>>
appVars == <<st_tasks, task_counter, current_plan, executing, ui>>
vars == <<plannerVars, executorVars, appVars>>

\* ---------------------------------------------------- planner: operations
NoExecutor ==
    /\ exec_tasks = <<>>
    /\ stop_flag = FALSE
    /\ pause_flag = FALSE
    /\ worker = [pc |-> "off", cursor |-> 0]
    /\ stopper = [pc |-> "off", index |-> 0]
    /\ history = [stopped_at |-> None]

\* the script run is not in its execution loop
Idle == [pc |-> "idle", i |-> 0, stop_shown |-> FALSE, reports |-> 0]

NoApplication ==
    /\ st_tasks = <<>>
    /\ task_counter = 0
    /\ current_plan = None
    /\ executing = FALSE
    /\ ui = Idle

InitPlanner ==
    /\ \E n \in 0..MaxTasks :
          \/ tasks \in TaskLists(n) /\ classifier = NoClassifier
          \/ tasks \in PlainTaskLists(n) /\ classifier \in Responses(n)
          \/ tasks \in FailureTaskLists(n) /\ classifier \in Failures
    /\ dependencies = <<>>
    /\ task_phases = None
    /\ ai_called = FALSE
    /\ ordered_indices = None
    /\ plan = None
    /\ NoExecutor
    /\ NoApplication

\* planner.generate_plan(tasks)
CallGeneratePlan ==
    /\ plan = None
    /\ \E g \in {GeneratePlan(tasks, classifier)} :
           /\ plan' = Some(g.plan)
           /\ dependencies' = g.dependencies
           /\ task_phases' = g.task_phases
           /\ ai_called' = g.ai_called
           /\ ordered_indices' = g.ordered_indices
    /\ UNCHANGED <<tasks, classifier, executorVars, appVars>>

NextPlanner == CallGeneratePlan

SpecPlanner == InitPlanner /\ [][NextPlanner]_vars

\* the planner with a classifier whose response has missing keys, stray keys
\* and numbers of no task
InitResponse ==
    /\ \E n \in 0..MaxResponseTasks :
          tasks \in PlainTaskLists(n) /\ classifier \in NoisyResponses(n)
    /\ dependencies = <<>>
    /\ task_phases = None
    /\ ai_called = FALSE
    /\ ordered_indices = None
    /\ plan = None
    /\ NoExecutor
    /\ NoApplication

SpecResponse == InitResponse /\ [][NextPlanner]_vars

\* the messages handed to add_error
ErrorMessages == {"", "Task failed"}

\* plan.add_error(message) on the plan generate_plan returned
AddError ==
    /\ plan # None
    /\ \E message \in ErrorMessages :
          plan' = Some([plan[1] EXCEPT !.is_valid = FALSE,
                                       !.error_message = message])
    /\ UNCHANGED <<tasks, classifier, dependencies, task_phases, ai_called,
                   ordered_indices, executorVars, appVars>>

\* the plan object: generate_plan constructs it, add_error changes it
NextPlan ==
    \/ CallGeneratePlan
    \/ AddError

SpecPlan == InitPlanner /\ [][NextPlan]_vars


\* ------------------------------------------------------------ TaskExecutor
NoPlanner ==
    /\ tasks = <<>>
    /\ classifier = NoClassifier
    /\ dependencies = <<>>
    /\ task_phases = None
    /\ ai_called = FALSE
    /\ ordered_indices = None
    /\ plan = None

\* TaskExecutor(tasks) over a list of Pending tasks; the worker is about to
\* call execute_task on each task of the list in order, and another thread
\* may call stop_execution, pause_execution and resume_execution
InitExecutor ==
    /\ \E n \in 0..MaxExecTasks : exec_tasks = [k \in 1..n |-> "Pending"]
    /\ stop_flag = FALSE
    /\ pause_flag = FALSE
    /\ worker = [pc |-> "idle", cursor |-> 0]
    /\ stopper = [pc |-> "idle", index |-> 0]
    /\ history = [stopped_at |-> None]
    /\ NoPlanner
    /\ NoApplication

\* the worker has a task left to call execute_task on
WorkerHasTask == worker.pc = "idle" /\ worker.cursor < Len(exec_tasks)

\* execute_task returns: the worker moves to the next task of the list
Return == [pc |-> "idle", cursor |-> worker.cursor + 1]

\* (mutant) the reset writes Failed
RevertedStatus_Failed == "Failed"

\* the status stop_execution writes to a task it finds Running
RevertedStatus == "Pending"

\* (mutant) execute_task starts the task without reading stop_flag
ExecuteTask_CheckStop_Blind ==
    /\ WorkerHasTask
    /\ worker' = [worker EXCEPT !.pc = "l41"]
    /\ UNCHANGED <<exec_tasks, stop_flag, pause_flag, stopper, history, plannerVars, appVars>>

\* execute_task, line 37: called on the next task, it reads stop_flag and
\* returns at once when it is set
ExecuteTask_CheckStop ==
    /\ WorkerHasTask
    /\ worker' = IF stop_flag THEN Return ELSE [worker EXCEPT !.pc = "l41"]
    /\ UNCHANGED <<exec_tasks, stop_flag, pause_flag, stopper, history, plannerVars, appVars>>

\* execute_task, line 41: task.status = TaskStatus.RUNNING
ExecuteTask_SetRunning ==
    /\ worker.pc = "l41"
    /\ exec_tasks' = [exec_tasks EXCEPT ![worker.cursor + 1] = "Running"]
    /\ worker' = [worker EXCEPT !.pc = "l44"]
    /\ UNCHANGED <<stop_flag, pause_flag, stopper, history, plannerVars, appVars>>

\* execute_task, line 44: time.sleep(1.5) returns
ExecuteTask_Sleep ==
    /\ worker.pc = "l44"
    /\ worker' = [worker EXCEPT !.pc = "l46"]
    /\ UNCHANGED <<exec_tasks, stop_flag, pause_flag, stopper, history, plannerVars, appVars>>

\* execute_task, line 46: it reads stop_flag again and returns when it is set
ExecuteTask_CheckStopAfter ==
    /\ worker.pc = "l46"
    /\ worker' = IF ~stop_flag THEN [worker EXCEPT !.pc = "l48"] ELSE Return
    /\ UNCHANGED <<exec_tasks, stop_flag, pause_flag, stopper, history, plannerVars, appVars>>

\* execute_task, line 48: task.status = TaskStatus.COMPLETED, and return
ExecuteTask_SetCompleted ==
    /\ worker.pc = "l48"
    /\ exec_tasks' = [exec_tasks EXCEPT ![worker.cursor + 1] = "Completed"]
    /\ worker' = Return
    /\ UNCHANGED <<stop_flag, pause_flag, stopper, history, plannerVars, appVars>>

\* pause_execution
PauseExecution ==
    /\ pause_flag' = TRUE
    /\ UNCHANGED <<exec_tasks, stop_flag, worker, stopper, history, plannerVars, appVars>>

\* resume_execution
ResumeExecution ==
    /\ pause_flag' = FALSE
    /\ UNCHANGED <<exec_tasks, stop_flag, worker, stopper, history, plannerVars, appVars>>

\* stop_execution, line 60: self.stop_flag = True. The first call records
\* the statuses and the worker's position at that moment.
StopExecution_SetFlag ==
    /\ stopper.pc = "idle"
    /\ stop_flag' = TRUE
    /\ stopper' = [pc |-> "l63", index |-> 0]
    /\ history' = IF history.stopped_at = None
                  THEN [history EXCEPT !.stopped_at =
                           Some([statuses |-> exec_tasks, worker |-> worker])]
                  ELSE history
    /\ UNCHANGED <<exec_tasks, pause_flag, worker, plannerVars, appVars>>

\* stop_execution, lines 63-64: the loop takes the next task and reads its
\* status, or ends
StopExecution_ReadStatus ==
    /\ stopper.pc = "l63"
    /\ stopper' = IF stopper.index >= Len(exec_tasks)
                  THEN [pc |-> "idle", index |-> 0]
                  ELSE IF exec_tasks[stopper.index + 1] = "Running"
                  THEN [stopper EXCEPT !.pc = "l65"]
                  ELSE [stopper EXCEPT !.index = @ + 1]
    /\ UNCHANGED <<exec_tasks, stop_flag, pause_flag, worker, history, plannerVars, appVars>>

\* stop_execution, line 65: task.status = TaskStatus.PENDING
StopExecution_Reset ==
    /\ stopper.pc = "l65"
    /\ exec_tasks' = [exec_tasks EXCEPT ![stopper.index + 1] = RevertedStatus]
    /\ stopper' = [pc |-> "l63", index |-> stopper.index + 1]
    /\ UNCHANGED <<stop_flag, pause_flag, worker, history, plannerVars, appVars>>

NextExecutor ==
    \/ ExecuteTask_CheckStop
    \/ ExecuteTask_SetRunning
    \/ ExecuteTask_Sleep
    \/ ExecuteTask_CheckStopAfter
    \/ ExecuteTask_SetCompleted
    \/ PauseExecution
    \/ ResumeExecution
    \/ StopExecution_SetFlag
    \/ StopExecution_ReadStatus
    \/ StopExecution_Reset

SpecExecutor == InitExecutor /\ [][NextExecutor]_vars


\* ------------------------------------------------------- web application
\* The handlers of streamlit_app.py. Every interaction with a widget starts
\* a script run from the top, which abandons a run still in its execution
\* loop; the run handles the one button that was pressed and then reaches
\* the execution block of tab 3. The statements that only render (the task
\* table, the analysis text, the planned order) are not modelled.

\* the names and descriptions typed into the form
FormNames ==
    { <<"W","r","i","t","e"," ","r","e","p","o","r","t">>,
      <<"R","e","s","e","a","r","c","h"," ","t","o","p","i","c">> }

FormDescriptions == { <<>> }

\* the slider is left at its default
FormPriorities == {DefaultPriority}

\* what the planner's classifier does in one Analyze request over n tasks
AppClassifiers(n) == {NoClassifier} \cup Responses(n)

InitApplication ==
    /\ NoApplication
    /\ NoPlanner
    /\ NoExecutor

\* line 205: a plan exists and is valid
HasValidPlan(p) == p # None /\ p[1].is_valid

\* (mutant) the block does not test the plan
ExecutionBlock_Unguarded(p, executing_now, execute_button) ==
    IF execute_button \/ executing_now
    THEN [executing |-> TRUE,
          ui |-> [pc |-> "loop", i |-> 0, stop_shown |-> executing_now,
                  reports |-> 0]]
    ELSE [executing |-> FALSE, ui |-> Idle]

\* the execution block (lines 205-262) up to the start of its loop, in a run
\* where the Stop button was not pressed: the state of session_state.executing
\* and of the run afterwards
ExecutionBlock(p, executing_now, execute_button) ==
    IF ~HasValidPlan(p)
    THEN [executing |-> executing_now, ui |-> Idle]
    ELSE IF execute_button \/ executing_now
    THEN [executing |-> TRUE,
          ui |-> [pc |-> "loop", i |-> 0, stop_shown |-> executing_now,
                  reports |-> 0]]
    ELSE [executing |-> FALSE, ui |-> Idle]

\* a run in which no button of tab 1 or tab 2 changed the plan
RunExecutionBlock(execute_button) ==
    \E b \in {ExecutionBlock(current_plan, executing, execute_button)} :
        /\ executing' = b.executing
        /\ ui' = b.ui

\* "+ Add Task" with a non-empty name (lines 96-108)
AddTask ==
    /\ Len(st_tasks) < MaxStoreTasks
    /\ task_counter < MaxCounter
    /\ \E name \in FormNames, description \in FormDescriptions,
          priority \in FormPriorities :
          st_tasks' = Append(st_tasks,
                             [id |-> task_counter, name |-> name,
                              description |-> description, priority |-> priority,
                              status |-> "Pending"])
    /\ task_counter' = task_counter + 1
    /\ current_plan' = None
    /\ ui' = Idle
    /\ UNCHANGED <<executing, plannerVars, executorVars>>

\* (mutant) deleting a task keeps the cached plan
DeleteTask_KeepPlan ==
    /\ \E k \in 1..Len(st_tasks) :
          st_tasks' = SubSeq(st_tasks, 1, k - 1) \o SubSeq(st_tasks, k + 1, Len(st_tasks))
    /\ ui' = Idle
    /\ UNCHANGED <<current_plan, task_counter, executing, plannerVars, executorVars>>

\* the delete button of one task (lines 136-139)
DeleteTask ==
    /\ \E k \in 1..Len(st_tasks) :
          st_tasks' = SubSeq(st_tasks, 1, k - 1) \o SubSeq(st_tasks, k + 1, Len(st_tasks))
    /\ current_plan' = None
    /\ ui' = Idle
    /\ UNCHANGED <<task_counter, executing, plannerVars, executorVars>>

\* "Clear All Tasks" (lines 144-148)
ClearAllTasks ==
    /\ st_tasks # <<>>
    /\ st_tasks' = <<>>
    /\ task_counter' = 0
    /\ current_plan' = None
    /\ ui' = Idle
    /\ UNCHANGED <<executing, plannerVars, executorVars>>

\* "Analyze & Generate Plan" (lines 159-166), then the execution block of
\* the same run
AnalyzeAndGeneratePlan ==
    /\ st_tasks # <<>>
    /\ \E clf \in AppClassifiers(Len(st_tasks)) :
       \E g \in {GeneratePlan(st_tasks, clf)} :
       \E b \in {ExecutionBlock(Some(g.plan), executing, FALSE)} :
          /\ current_plan' = Some(g.plan)
          /\ executing' = b.executing
          /\ ui' = b.ui
    /\ UNCHANGED <<st_tasks, task_counter, plannerVars, executorVars>>

\* "Execute Plan" (lines 211, 218-230): the button is there when the last
\* run found a valid plan
ExecutePlan ==
    /\ HasValidPlan(current_plan)
    /\ RunExecutionBlock(TRUE)
    /\ UNCHANGED <<st_tasks, task_counter, current_plan, plannerVars, executorVars>>

\* "Stop Execution" (lines 213-216): the button is there when the run found
\* executing set at line 213; pressing it starts a run that clears the
\* flag and reruns
StopExecutionButton ==
    /\ ui.pc = "loop" /\ ui.stop_shown
    /\ executing' = FALSE
    /\ ui' = Idle
    /\ UNCHANGED <<st_tasks, task_counter, current_plan, plannerVars, executorVars>>

\* any other widget (the name field, the slider) starts a run without a
\* button pressed
Rerun ==
    /\ RunExecutionBlock(FALSE)
    /\ UNCHANGED <<st_tasks, task_counter, current_plan, plannerVars, executorVars>>

\* the tasks the loop iterates over (lines 223-226)
OrderedTasks == current_plan[1].execution_order

\* one iteration of the loop (lines 232-250): the status text, the progress
\* bar and the delay
LoopIteration ==
    /\ ui.pc = "loop" /\ ui.i < Len(OrderedTasks)
    /\ ui' = IF ~executing THEN [ui EXCEPT !.i = Len(OrderedTasks)]
             ELSE [ui EXCEPT !.i = @ + 1]
    /\ UNCHANGED <<st_tasks, task_counter, current_plan, executing, plannerVars,
                   executorVars>>

\* after the loop (lines 252-262): completion is reported when executing is
\* still set, and the run ends
LoopEnd ==
    /\ ui.pc = "loop" /\ ui.i = Len(OrderedTasks)
    /\ executing' = FALSE
    /\ ui' = [ui EXCEPT !.pc = "ended",
                        !.reports = IF executing THEN @ + 1 ELSE @]
    /\ UNCHANGED <<st_tasks, task_counter, current_plan, plannerVars, executorVars>>

NextApplication ==
    \/ AddTask
    \/ DeleteTask
    \/ ClearAllTasks
    \/ AnalyzeAndGeneratePlan
    \/ ExecutePlan
    \/ StopExecutionButton
    \/ Rerun
    \/ LoopIteration
    \/ LoopEnd

SpecApplication == InitApplication /\ [][NextApplication]_vars

\* ------------------------------------------------------- planner: claims
\* generate_plan has returned
Generated == plan # None

\* the plan generate_plan returned
ThePlan == plan[1]

\* the identifiers of the task list handed in
InputIds == {tasks[k].id : k \in 1..Len(tasks)}

\* deps has a cycle: some non-empty set of tasks each of which has a
\* prerequisite inside the set
HasCycle(deps, n) ==
    \E S \in SUBSET Range(n) : S # {} /\ \A i \in S : deps[i] \cap S # {}

\* a occurs in order at an earlier position than b
Before(order, a, b) ==
    \E ka, kb \in 1..Len(order) : order[ka] = a /\ order[kb] = b /\ ka < kb

\* C1: for an acyclic prerequisite relation, the order _topological_sort
\* returns, and the execution_order built from it, place j before i for
\* every recorded edge "j is a prerequisite of i".
C1_EdgesRespected ==
    (Generated /\ tasks # <<>> /\ ~HasCycle(dependencies, Len(tasks))) =>
        /\ ordered_indices # None
        /\ \A i \in Indices(tasks) : \A j \in dependencies[i] :
              /\ Before(ordered_indices[1], j, i)
              /\ Before(ThePlan.execution_order, At(tasks, j).id, At(tasks, i).id)

\* an acyclic relation over three tasks with an edge from a later task to an
\* earlier one has been sorted
C1_Witness ==
    /\ Generated /\ Len(tasks) = MaxTasks
    /\ ~HasCycle(dependencies, Len(tasks))
    /\ \E i \in Indices(tasks) : \E j \in dependencies[i] : j > i
    /\ \E i \in Indices(tasks) : Cardinality(dependencies[i]) >= 2

\* C2: for a relation with a cycle (a task that is its own prerequisite
\* included), the plan is invalid, carries an error message and has an empty
\* execution_order.
C2_CycleRejected ==
    (Generated /\ tasks # <<>> /\ HasCycle(dependencies, Len(tasks))) =>
        /\ ThePlan.is_valid = FALSE
        /\ ThePlan.error_message # ""
        /\ ThePlan.execution_order = <<>>
        /\ ordered_indices = None

\* a relation with a self-prerequisite and a task free of prerequisites (so
\* that Kahn's loop emitted something before it ran dry) has been planned
C2_Witness ==
    /\ Generated /\ Len(tasks) = MaxTasks
    /\ \E i \in Indices(tasks) : i \in dependencies[i]
    /\ \E i \in Indices(tasks) : dependencies[i] = {}
    /\ ~ThePlan.is_valid

\* a cycle through two tasks, neither its own prerequisite, has been planned
C2_WitnessLoop ==
    /\ Generated
    /\ \A i \in Indices(tasks) : i \notin dependencies[i]
    /\ HasCycle(dependencies, Len(tasks))

\* C3: a valid plan's execution_order is a permutation of the input task
\* identifiers, and the plan's tasks lookup has exactly those keys.
C3_ValidPlanIsPermutation ==
    (Generated /\ ThePlan.is_valid) =>
        LET order == ThePlan.execution_order
        IN  /\ Len(order) = Len(tasks)
            /\ {order[k] : k \in 1..Len(order)} = InputIds
            /\ \A k1, k2 \in 1..Len(order) : order[k1] = order[k2] => k1 = k2
            /\ DOMAIN ThePlan.tasks = InputIds

\* a valid plan over three tasks whose identifiers are not their indices and
\* whose order is not the input order
C3_Witness ==
    /\ Generated /\ ThePlan.is_valid /\ Len(tasks) = MaxTasks
    /\ tasks[1].id # 0
    /\ ThePlan.execution_order # [k \in 1..Len(tasks) |-> tasks[k].id]

\* C9: in the keyword fallback, j is a prerequisite of i exactly when
\* phase(j) < phase(i).
C9_PhaseRule ==
    (Generated /\ task_phases # None) =>
        \A i, j \in Indices(tasks) :
            j \in dependencies[i] <=> task_phases[1][j] < task_phases[1][i]

\* the fallback ran on three tasks, two of equal phase and a third of a
\* higher phase, which depends on both
C9_Witness ==
    /\ Generated /\ task_phases # None /\ Len(tasks) = MaxTasks
    /\ \E i, j \in Indices(tasks) :
          /\ i # j /\ task_phases[1][i] = task_phases[1][j]
          /\ dependencies[i] = {} /\ dependencies[j] = {}
          /\ \E h \in Indices(tasks) : dependencies[h] = {i, j}

\* the phases of the keywords that occur in a text
MatchingPhases(text) ==
    {ActionPhases[k].phase :
        k \in {m \in 1..Len(ActionPhases) : Contains(text, ActionPhases[m].action)}}

\* the least element of a set of phases, the default for the empty set
LeastPhase(S) == IF S = {} THEN DefaultPhase ELSE CHOOSE m \in S : \A x \in S : m <= x

\* the claimed phase when the text is name immediately followed by description
PhaseOfConcatenation ==
    Dict([nd \in TaskNames \X TaskDescriptions |->
            LeastPhase(MatchingPhases(Lower(nd[1] \o nd[2])))])

\* the claimed phase when the text is name, one space, description
PhaseOfSpacedText ==
    Dict([nd \in TaskNames \X TaskDescriptions |->
            LeastPhase(MatchingPhases(Lower(nd[1] \o <<" ">> \o nd[2])))])

\* C10 as stated: the phase of a task is the least phase over the keywords
\* occurring in the lowercase concatenation of its name and description,
\* and 5 when none occurs.
C10_PhaseOfConcatenation ==
    (Generated /\ task_phases # None) =>
        \A i \in Indices(tasks) :
            task_phases[1][i] =
                PhaseOfConcatenation[<<At(tasks, i).name, At(tasks, i).description>>]

\* C10 amended: the phase of a task is the least phase over the keywords
\* occurring in the lowercase text "name, one space, description", and 5
\* when none occurs.
C10_PhaseOfSpacedText ==
    (Generated /\ task_phases # None) =>
        \A i \in Indices(tasks) :
            task_phases[1][i] =
                PhaseOfSpacedText[<<At(tasks, i).name, At(tasks, i).description>>]

\* the fallback ran on a task matching keywords of several phases, a task
\* matching none, and a task matched only across the space between its name
\* and its description
C10_Witness ==
    /\ Generated /\ task_phases # None
    /\ \E i \in Indices(tasks) :
          Cardinality(MatchingPhases(TaskText(At(tasks, i)))) >= 2
    /\ \E i \in Indices(tasks) :
          /\ MatchingPhases(TaskText(At(tasks, i))) = {}
          /\ task_phases[1][i] = DefaultPhase
    /\ \E i \in Indices(tasks) :
          /\ MatchingPhases(TaskText(At(tasks, i))) # {}
          /\ MatchingPhases(Lower(At(tasks, i).name)) = {}
          /\ MatchingPhases(Lower(At(tasks, i).description)) = {}

\* the all-empty relation over the task list
NoPrerequisites == Dict([i \in Indices(tasks) |-> {}])

\* C11: when the classifier is enabled and its call fails (a transport
\* error, a non-success result or an unparsable payload), generate_plan
\* still returns and the relation analyze_dependencies gave it is the one
\* _analyze_with_keywords produces for the same task list.
C11_FailureFallsBack ==
    (Generated /\ tasks # <<>> /\ classifier \in Failures) =>
        dependencies = AnalyzeWithKeywords(tasks)

\* the classifier was called, returned text that does not parse, and the
\* relation returned has prerequisites in it
C11_Witness ==
    /\ Generated /\ classifier \in Failures /\ Len(tasks) >= 2
    /\ \E i \in Indices(tasks) : dependencies[i] # {}
    /\ classifier.outcome = "unparsable" /\ ai_called

\* the classifier's response was parsed and converted
Converted == Generated /\ ai_called /\ classifier.outcome = "ok"

\* C12: for a response that parses, the relation has exactly the keys
\* 0..N-1; relation[i] is {x - 1 : x listed under key str(i+1), 1 <= x <= N},
\* empty when the key is missing; every index of the relation is in [0, N).
C12_ResponseConversion ==
    Converted =>
        /\ DOMAIN dependencies = Indices(tasks)
        /\ \A i \in Indices(tasks) :
              /\ dependencies[i] \subseteq Indices(tasks)
              /\ dependencies[i] =
                    IF Str(i + 1) \in DOMAIN classifier.deps
                    THEN {x - 1 : x \in classifier.deps[Str(i + 1)] \cap (1..Len(tasks))}
                    ELSE {}

\* a response in which one key is missing, one key lists a number below 1
\* and a number above N beside a number that is kept, and a key of no task
\* is present
C12_Witness ==
    /\ Converted
    /\ \E i, j \in Indices(tasks) :
          /\ Str(i + 1) \notin DOMAIN classifier.deps
          /\ Str(j + 1) \in DOMAIN classifier.deps
          /\ {0, Len(tasks) + 1} \subseteq classifier.deps[Str(j + 1)]
          /\ dependencies[j] # {}
    /\ Str(Len(tasks) + 1) \in DOMAIN classifier.deps

\* a second task list of the same length that shares no name, description
\* or priority scheme with the lists the keyword analysis is run on
ReferenceTasks(n) ==
    [k \in 1..n |-> [id |-> TaskId("dense", k - 1), name |-> <<"N","a","p">>,
                     description |-> <<>>, priority |-> DefaultPriority]]

\* the classifier response that states the relation given
ResponseOf(relation, n) ==
    [use_ai |-> TRUE, outcome |-> "ok",
     deps |-> Dict([key \in TaskKeys(n) |->
                     {x + 1 : x \in relation[CHOOSE i \in Range(n) : Str(i + 1) = key]}])]

\* a second run of generate_plan, on the reference list, in which the
\* classifier states the relation of the first run
ReferenceRun ==
    CHOOSE g \in {GeneratePlan(reference, response) :
                     reference \in {ReferenceTasks(Len(tasks))},
                     response \in {ResponseOf(dependencies, Len(tasks))}} : TRUE

Research == <<"R","e","s","e","a","r","c","h"," ","t","o","p","i","c">>
Write == <<"W","r","i","t","e"," ","r","e","p","o","r","t">>
Submit == <<"S","u","b","m","i","t"," ","r","e","p","o","r","t">>

\* the names of the input list, in input order
InputNames == [k \in 1..Len(tasks) |-> tasks[k].name]

\* the names of the tasks in the order of the plan
PlannedNames ==
    [k \in 1..Len(ThePlan.execution_order) |->
        ThePlan.tasks[ThePlan.execution_order[k]].name]

\* generate_plan ran in fallback mode on the three tasks of the scenario,
\* in some input order
ScenarioRun ==
    /\ Generated /\ task_phases # None /\ Len(tasks) = 3
    /\ {tasks[k].name : k \in 1..3} = {Research, Write, Submit}

\* C15: in fallback mode the tasks "Research topic", "Write report",
\* "Submit report" have the phases 2, 4, 7, the relation {0:{}, 1:{0},
\* 2:{0,1}} and the plan order [task 0, task 1, task 2]; in any other input
\* order the plan still runs Research, then Write, then Submit.
C15_Scenario ==
    ScenarioRun =>
        /\ PlannedNames = <<Research, Write, Submit>>
        /\ InputNames = <<Research, Write, Submit>> =>
              /\ task_phases[1] = (0 :> 2 @@ 1 :> 4 @@ 2 :> 7)
              /\ dependencies = (0 :> {} @@ 1 :> {0} @@ 2 :> {0, 1})
              /\ ThePlan.is_valid
              /\ ThePlan.execution_order = <<tasks[1].id, tasks[2].id, tasks[3].id>>

\* the scenario was run with the three tasks presented in reverse
C15_Witness ==
    /\ ScenarioRun
    /\ InputNames = <<Submit, Write, Research>>
    /\ ordered_indices = Some(<<2, 1, 0>>)

\* the index order _topological_sort returned (when it returned one)
IndexOrder == ordered_indices[1]

\* the tasks without prerequisites
Roots == {i \in Indices(tasks) : dependencies[i] = {}}

\* the place of task a in the order
PlaceOf(order, a) == CHOOSE k \in 1..Len(order) : order[k] = a

\* the prerequisite of task i that comes last in the order: when it is
\* dequeued, i is unblocked
Unblocker(order, i) ==
    CHOOSE p \in dependencies[i] :
        \A q \in dependencies[i] : PlaceOf(order, q) <= PlaceOf(order, p)

\* C17: the tasks without prerequisites fill the first places of the order
\* in ascending index, and of two tasks unblocked by the same predecessor
\* the one with the lower index comes earlier.
C17_FifoTieBreak ==
    (Generated /\ ordered_indices # None) =>
        /\ \A k \in 1..Cardinality(Roots) :
              /\ IndexOrder[k] \in Roots
              /\ k > 1 => IndexOrder[k - 1] < IndexOrder[k]
        /\ \A a, b \in Indices(tasks) \ Roots :
              (a < b /\ Unblocker(IndexOrder, a) = Unblocker(IndexOrder, b)) =>
                  Before(IndexOrder, a, b)

\* the last task of three has no prerequisites and unblocks the two others
\* when it is dequeued
C17_Witness ==
    /\ Generated /\ ordered_indices # None /\ Len(tasks) = 3
    /\ Roots = {2} /\ dependencies[0] = {2} /\ dependencies[1] = {2}
    /\ Unblocker(IndexOrder, 0) = Unblocker(IndexOrder, 1)
    /\ IndexOrder = <<2, 0, 1>>

\* C20: in every state of a plan reached by generate_plan and add_error
\* calls, a plan that is not valid has an empty execution_order and a
\* non-empty error_message.
C20_InvalidPlanShape ==
    (Generated /\ ~ThePlan.is_valid) =>
        /\ ThePlan.execution_order = <<>>
        /\ ThePlan.error_message # ""

\* generate_plan took the relation from the keyword table
FallbackMode == Generated /\ task_phases # None

\* generate_plan ran on a planner whose classifier is disabled or fails
WithoutClassifier == Generated /\ classifier.outcome # "ok"

\* C22: the relation the keyword fallback returns has no cycle, so in
\* fallback mode generate_plan returns a valid plan that contains every
\* task.
C22_FallbackAcyclic ==
    WithoutClassifier =>
        /\ ~HasCycle(dependencies, Len(tasks))
        /\ ThePlan.is_valid
        /\ Len(ThePlan.execution_order) = Len(tasks)
        /\ DOMAIN ThePlan.tasks = InputIds

\* the fallback planned three tasks, two of which have the same phase and
\* one of which has prerequisites
C22_Witness ==
    /\ FallbackMode /\ Len(tasks) = 3 /\ ThePlan.is_valid
    /\ \E i, j \in Indices(tasks) : i # j /\ task_phases[1][i] = task_phases[1][j]
    /\ \E i \in Indices(tasks) : dependencies[i] # {}

\* the phase of the task at place k of the index order
PhaseAt(k) == task_phases[1][IndexOrder[k]]

\* C23: in fallback mode the order is the stable sort of the indices by
\* phase: phases do not decrease along the order, and tasks of equal phase
\* are in input order.
C23_StableSortByPhase ==
    FallbackMode =>
        /\ ordered_indices # None
        /\ Len(IndexOrder) = Len(tasks)
        /\ \A k \in 2..Len(tasks) :
              \/ PhaseAt(k - 1) < PhaseAt(k)
              \/ PhaseAt(k - 1) = PhaseAt(k) /\ IndexOrder[k - 1] < IndexOrder[k]
        /\ ThePlan.execution_order = [k \in 1..Len(tasks) |-> At(tasks, IndexOrder[k]).id]

\* three tasks whose phases fall along the input, the last two tasks sharing
\* the lowest phase: the order moves them to the front in input order
C23_Witness ==
    /\ FallbackMode /\ Len(tasks) = 3
    /\ task_phases[1][0] > task_phases[1][1]
    /\ task_phases[1][1] = task_phases[1][2]
    /\ ordered_indices = Some(<<1, 2, 0>>)

\* C13: for a list of 0 or 1 tasks the relation is all-empty, neither the
\* classifier nor the keyword table is consulted, and the plan is valid,
\* without error, and its order is empty (0 tasks) or the single task's
\* identifier (1 task).
C13_TrivialLists ==
    (Generated /\ Len(tasks) <= 1) =>
        /\ dependencies = NoPrerequisites
        /\ ~ai_called /\ task_phases = None
        /\ ThePlan.is_valid /\ ThePlan.error_message = ""
        /\ ThePlan.execution_order = [k \in 1..Len(tasks) |-> tasks[k].id]

\* a single task, whose identifier is not its index, was planned by a planner
\* with the classifier enabled
C13_Witness ==
    /\ Generated /\ Len(tasks) = 1 /\ classifier.use_ai
    /\ tasks[1].id # 0
    /\ ThePlan.execution_order = <<tasks[1].id>>

\* ------------------------------------------------------ executor: claims
\* the worker has called execute_task on every task and the last call returned
WorkerFinished == worker.pc = "idle" /\ worker.cursor = Len(exec_tasks)

\* no call of stop_execution is in progress
StopperFinished == stopper.pc = "idle"

\* C4: once the worker and stop_execution have both finished, every task
\* that was Completed when stop was issued is Completed and every other
\* task (the one in flight, the ones not reached) is Pending; none is
\* Running or Failed.
C4_StopSemantics ==
    (WorkerFinished /\ StopperFinished /\ history.stopped_at # None) =>
        \A k \in 1..Len(exec_tasks) :
            exec_tasks[k] = IF history.stopped_at[1].statuses[k] = "Completed"
                            THEN "Completed" ELSE "Pending"

\* C5: while pause_flag is set (from pause_execution to the next
\* resume_execution), no task goes from Pending to Running.
C5_PauseBlocksStart ==
    [][pause_flag =>
          \A k \in 1..Len(exec_tasks) :
              ~(exec_tasks[k] = "Pending" /\ exec_tasks'[k] = "Running")]_vars

\* the status changes the state machine of a task allows
AllowedChanges ==
    { <<"Pending", "Running">>, <<"Running", "Completed">>, <<"Running", "Pending">> }

\* C6: every change of a task's status is Pending -> Running,
\* Running -> Completed or Running -> Pending.
C6_AllowedTransitions ==
    [][\A k \in 1..Len(exec_tasks) :
          exec_tasks'[k] # exec_tasks[k] =>
              <<exec_tasks[k], exec_tasks'[k]>> \in AllowedChanges]_vars

\* C7: no task of the executor ever has status Failed.
C7_NeverFailed ==
    \A k \in 1..Len(exec_tasks) : exec_tasks[k] \in TaskStatus \ {"Failed"}

\* stop_execution ran to its end and reset a task it found Running, after
\* another task had been completed, with pause_flag set
C7_Witness ==
    /\ stop_flag /\ pause_flag /\ StopperFinished /\ WorkerFinished
    /\ history.stopped_at # None
    /\ \E k \in 1..Len(exec_tasks) :
          /\ history.stopped_at[1].statuses[k] = "Running"
          /\ exec_tasks[k] = "Pending"
    /\ \E k \in 1..Len(exec_tasks) : exec_tasks[k] = "Completed"

\* the session is active: the worker has calls of execute_task to make or
\* to finish
SessionActive == ~WorkerFinished

\* C18: while a session is active, a task's status is written only by the
\* worker inside execute_task: every step that changes a status is a step of
\* the worker.
C18_SingleWriter ==
    [][(SessionActive /\ exec_tasks' # exec_tasks) => worker' # worker]_vars

\* the first task the worker had not called execute_task on when
\* stop_execution set the flag (a 1-based position)
FirstNotBegun ==
    LET at == history.stopped_at[1].worker
    IN  IF at.pc = "idle" THEN at.cursor + 1 ELSE at.cursor + 2

\* C19: a call of execute_task that begins when stop_flag is set returns
\* without a status changing, so every task whose call had not begun when
\* the flag was set stays Pending.
C19_NoStartAfterStop ==
    /\ [][(WorkerHasTask /\ stop_flag /\ worker' # worker) =>
            (worker' = Return /\ exec_tasks' = exec_tasks)]_vars
    /\ [](history.stopped_at # None =>
            \A k \in FirstNotBegun..Len(exec_tasks) : exec_tasks[k] = "Pending")

\* the flag was set while the first of three tasks was in flight, and the
\* worker has since called execute_task on the two others
C19_Witness ==
    /\ Len(exec_tasks) = 3 /\ WorkerFinished
    /\ history.stopped_at # None
    /\ history.stopped_at[1].worker.cursor = 0
    /\ history.stopped_at[1].worker.pc # "idle"
    /\ exec_tasks[2] = "Pending" /\ exec_tasks[3] = "Pending"

\* a call of stop_execution has returned and none is in progress
StopReturned == stop_flag /\ StopperFinished

\* C24: once a call of stop_execution has returned, no task's status
\* changes any more.
C24_FrozenAfterStop ==
    [][StopReturned => exec_tasks' = exec_tasks]_vars

\* --------------------------------------------------- application: claims
\* the statuses of the tasks of the current plan
PlanStatuses ==
    {current_plan[1].tasks[id].status : id \in DOMAIN current_plan[1].tasks}

LoopRuns == ui.pc = "loop"

\* C16: the execution loop runs only when current_plan exists and is valid,
\* and while there is no valid plan every task of the store keeps the status
\* it was created with.
C16_NoStartWithoutValidPlan ==
    /\ LoopRuns => HasValidPlan(current_plan)
    /\ ~HasValidPlan(current_plan) =>
          \A k \in 1..Len(st_tasks) : st_tasks[k].status = "Pending"

\* the session still has executing set from an interrupted loop, the plan
\* generated since is invalid, and the loop does not run
C16_Witness ==
    /\ executing /\ current_plan # None /\ ~current_plan[1].is_valid
    /\ ~LoopRuns

\* the identifiers of the tasks in the store
StoreIds == {st_tasks[k].id : k \in 1..Len(st_tasks)}

\* C21: whenever a cached plan exists and is valid, its execution_order is
\* a permutation of the identifiers of the tasks in the store.
C21_PlanMatchesStore ==
    HasValidPlan(current_plan) =>
        /\ Len(OrderedTasks) = Len(st_tasks)
        /\ {OrderedTasks[k] : k \in 1..Len(OrderedTasks)} = StoreIds

\* a valid plan over two tasks was generated after an earlier task had been
\* deleted from the store
C21_Witness ==
    /\ HasValidPlan(current_plan)
    /\ Len(st_tasks) = 2 /\ 0 \notin StoreIds
    /\ Len(OrderedTasks) = 2

====
